---- MODULE Spec2Model ----
\* Model of plugins/modules/vcenter_resourcepool.py: the reconciliation of one
\* resource pool against a vCenter server (entry_point, _create, _update,
\* _delete), one HTTP exchange per step.
EXTENDS Integers, Sequences, FiniteSets, TLC

\* ---------------------------------------------------------------- bounds
\* Number of times the module is run in a row with the same parameters.
MaxRuns == 2
\* Allocation values (limit, reservation) range over 0..MaxLimit.
MaxLimit == 1

\* ------------------------------------------------------- JSON / Python values
\* A Python value is tagged with its type; a dict is a function from keys.
JNone == [t |-> "none", v |-> <<>>]
\* A local variable that was never assigned (reading it raises UnboundLocalError).
JUnbound == [t |-> "unbound", v |-> <<>>]
JStr(s) == [t |-> "str", v |-> s]
JDict(f) == [t |-> "dict", v |-> f]
JList(l) == [t |-> "list", v |-> l]
EmptyDict == JDict(<<>>)

IsDict(j) == j.t = "dict"
IsStr(j) == j.t = "str"

\* Python `k in j` for the keys the module probes ("value", "error"): key
\* membership for a dict; substring test for a str and element test for a list,
\* both false for every string and list of this model.
HasKey(j, k) == IsDict(j) /\ k \in DOMAIN j.v

\* Python truthiness (`if _json:` / `not _json`).
Truthy(j) ==
  CASE j.t = "none" -> FALSE
    [] j.t = "dict" -> DOMAIN j.v # {}
    [] j.t = "str" -> j.v # ""
    [] j.t = "list" -> Len(j.v) > 0
    [] OTHER -> FALSE

\* Python == on two values.
PyEq(a, b) == a.t = b.t /\ a.v = b.v

\* ------------------------------------------------------------ value domains
Ids == {"rp1", "rp2"}
Limits == 0 .. MaxLimit
SubKeys == {"limit", "reservation"}
CpuDicts == UNION {[S -> Limits] : S \in SUBSET SubKeys}
MemDicts == [{"limit"} -> Limits]
DesiredNames == {"a"}
ObservedNames == {"a", "b"}

\* An optional parameter is a set of at most one value (the empty set: None).
Opt(k, s) == IF s = {} THEN <<>> ELSE (k :> (CHOOSE x \in s : TRUE))

\* module.params: the keys of the argument spec whose value is not None.
MkParams(st, rp, nm, par, cpu, mem) ==
  ("state" :> st) @@ Opt("resource_pool", rp) @@ Opt("name", nm)
    @@ Opt("parent", par) @@ Opt("cpu_allocation", cpu)
    @@ Opt("memory_allocation", mem)

ParamSpace ==
  { MkParams(st, rp, nm, par, cpu, mem) :
      st \in {"present", "absent"},
      rp \in {{}} \cup {{JStr(i)} : i \in Ids},
      nm \in {{}} \cup {{JStr(n)} : n \in DesiredNames},
      par \in {{}, {JStr("rp0")}},
      cpu \in {{}} \cup {{JDict(f)} : f \in CpuDicts},
      mem \in {{}} \cup {{JDict(f)} : f \in MemDicts} }

\* A PAYLOAD_FORMAT that declares every field for the body of every operation.
BodyKeysEveryField(operation) ==
  {"cpu_allocation", "memory_allocation", "name", "parent"}

\* PAYLOAD_FORMAT[operation]["body"]
BodyKeys(operation) ==
  CASE operation = "delete" -> {}
    [] operation = "update" -> {"cpu_allocation", "memory_allocation", "name"}
    [] operation = "create" -> {"cpu_allocation", "memory_allocation", "name", "parent"}

\* ------------------------------------------------------------------ server
\* The pools the server holds: a function from identifiers to objects.
DefaultCpu == [limit |-> 0, reservation |-> 0]
DefaultMem == [limit |-> 0]

PoolObject(nm, cpu, mem) ==
  [name |-> nm, cpu_allocation |-> JDict(cpu), memory_allocation |-> JDict(mem)]

InitPools ==
  {<<>>} \cup
  { ("rp1" :> PoolObject(JStr(n), [limit |-> l, reservation |-> 0], DefaultMem)) :
      n \in ObservedNames, l \in Limits }

ErrorBody == JDict("error" :> JStr("error"))

Resp(st, ct, b) == [status |-> st, ctype |-> ct, body |-> b]

\* GET <collection>/<id>: the object, bare (7.0.2+) or in the {value: ...}
\* envelope; 404 when the server has no such object.
ServerGet(ps, id) ==
  IF id \in DOMAIN ps
  THEN { Resp(200, "json", JDict(ps[id])),
         Resp(200, "json", JDict("value" :> JDict(ps[id]))) }
  ELSE { Resp(404, "json", ErrorBody) }

RECURSIVE SeqOfIds(_)
SeqOfIds(S) ==
  IF S = {} THEN <<>>
  ELSE LET x == IF "rp1" \in S THEN "rp1" ELSE CHOOSE y \in S : TRUE
       IN <<x>> \o SeqOfIds(S \ {x})

Summary(ps, id) == JDict(("resource_pool" :> JStr(id)) @@ ("name" :> ps[id].name))

\* GET <collection>: the list of the pools' summaries.
ServerList(ps) ==
  LET ids == SeqOfIds(DOMAIN ps)
  IN { Resp(200, "json", JList([i \in 1 .. Len(ids) |-> Summary(ps, ids[i])])) }

\* GET <collection>?names=<name>&folders=<folder>: the summaries of the pools
\* of that name, as a list.
ServerFilter(ps, nm) ==
  LET ids == SeqOfIds({i \in DOMAIN ps : ps[i].name = nm})
  IN { Resp(200, "json", JList([i \in 1 .. Len(ids) |-> Summary(ps, ids[i])])) }

Merge(base, j) == [k \in DOMAIN base |-> IF k \in DOMAIN j.v THEN j.v[k] ELSE base[k]]

PoolFields == {"name", "cpu_allocation", "memory_allocation"}

\* The object after the payload is applied: a field of the payload replaces
\* the name, is merged into an allocation the object has, and is taken as it
\* is for a field the object did not have.
Stored(old, payload) ==
  [k \in (DOMAIN old \cup DOMAIN payload) \cap PoolFields |->
     IF k \notin DOMAIN payload THEN old[k]
     ELSE IF k = "name" \/ k \notin DOMAIN old THEN payload[k]
     ELSE JDict(Merge(old[k].v, payload[k]))]

NewId(ps) == IF "rp1" \in DOMAIN ps THEN "rp2" ELSE "rp1"

Out(r, ps) == [resp |-> r, pools |-> ps]

\* POST <collection>: the server creates the pool under an identifier of its
\* own choice and answers 200 or 201 with the identifier (bare, wrapped, or as
\* part of the object), with no Content-Type or with a non-JSON one; or it
\* answers 2xx with an error body, or rejects with 400 or 500.
ServerPost(ps, payload) ==
  LET canCreate == NewId(ps) \notin DOMAIN ps /\ "name" \in DOMAIN payload
      id == NewId(ps)
      obj == Stored(PoolObject(JStr("b"), DefaultCpu, DefaultMem), payload)
      ps2 == (id :> obj) @@ ps
  IN (IF canCreate
      THEN { Out(Resp(st, "json", b), ps2) :
               st \in {200, 201},
               b \in { JStr(id), JDict("value" :> JStr(id)),
                       JDict(("resource_pool" :> JStr(id)) @@ obj) } }
           \cup { Out(Resp(st, ct, JStr("")), ps2) :
                    st \in {200, 201}, ct \in {"absent", "other"} }
      ELSE {})
     \cup { Out(Resp(200, "json", ErrorBody), ps),
            Out(Resp(400, "json", ErrorBody), ps),
            Out(Resp(500, "json", ErrorBody), ps) }

\* PATCH <collection>/<id>: the stored object is answered bare, enveloped, or
\* enveloped next to an id of the server's own; or nothing is answered.
ServerPatch(ps, id, payload) ==
  IF id \in DOMAIN ps
  THEN LET obj == Stored(ps[id], payload)
           ps2 == [ps EXCEPT ![id] = obj]
       IN { Out(Resp(200, "json", JDict(obj)), ps2),
            Out(Resp(200, "json", JDict("value" :> JDict(obj))), ps2),
            Out(Resp(200, "json",
                     JDict(("value" :> JDict(obj)) @@ ("id" :> JStr("srv")))), ps2),
            Out(Resp(204, "absent", JStr("")), ps2),
            Out(Resp(204, "other", JStr("")), ps2),
            Out(Resp(200, "json", ErrorBody), ps),
            Out(Resp(400, "json", ErrorBody), ps) }
  ELSE { Out(Resp(404, "json", ErrorBody), ps) }

\* DELETE <collection>/<id>
ServerDelete(ps, id) ==
  IF id \in DOMAIN ps
  THEN LET ps2 == [i \in DOMAIN ps \ {id} |-> ps[i]]
       IN { Out(Resp(204, "absent", JStr("")), ps2),
            Out(Resp(200, "json", EmptyDict), ps2),
            Out(Resp(204, "other", JStr("")), ps2),
            Out(Resp(200, "json", ErrorBody), ps) }
  ELSE { Out(Resp(404, "json", ErrorBody), ps) }

\* ------------------------------------------------- module_utils.vmware_rest
\* prepare_payload: the fields declared for the operation's body whose value
\* is given (a None value is left out).
PreparePayload(p, operation) ==
  [k \in DOMAIN p \cap BodyKeys(operation) |-> p[k]]

\* An _update that compares against the response body as it came.
UnwrapNever(j) == j

\* The legacy {value: ...} envelope is removed when present.
Unwrap(j) == IF HasKey(j, "value") THEN j.v["value"] ELSE j

\* get_device_info: the direct GET of <url>/<id>; the object with its
\* identifier when the server answers 200, None otherwise.
GetDeviceInfo(r, id) ==
  IF r.status = 200
  THEN JDict(("value" :> Unwrap(r.body)) @@ ("id" :> JStr(id)))
  ELSE JNone

\* exists: the candidates of the list whose uniqueness keys equal the given
\* parameters; a candidate is returned only when it is the only one.
Exists(p, r, keys) ==
  LET items == r.body.v
      usable == {k \in keys : k \in DOMAIN p}
      cands == { i \in 1 .. Len(items) :
                   \A k \in usable : HasKey(items[i], k) /\ PyEq(items[i].v[k], p[k]) }
  IN IF r.status # 200 \/ usable = {} \/ Cardinality(cands) # 1
     THEN JNone
     ELSE LET it == items[CHOOSE i \in cands : TRUE]
          IN JDict(("value" :> it) @@ ("id" :> it.v["resource_pool"]))

\* The uniqueness keys exists() uses when the caller names none.
DefaultUniquityKeys == {"name"}

\* get_subdevice_type(url): the parameter to resolve by lookup when the
\* resource type supports it, None otherwise.
SubdeviceTypes == {JNone, JStr("resource_pool")}

Is2xx(st) == st >= 200 /\ st <= 299

\* update_changed_flag: {value, changed}; the envelope is kept when present,
\* otherwise the whole body becomes the value.
UpdateChangedFlag(data, st, operation) ==
  LET d == IF HasKey(data, "value") THEN data.v ELSE ("value" :> data)
      changed == /\ operation \in {"create", "update", "delete"}
                 /\ Is2xx(st)
                 /\ ~HasKey(data, "error")
  IN ("changed" :> changed) @@ d

\* ------------------------------------------------------------------- state
VARIABLES
  pc,        \* position of the run in the module
  params,    \* module.params of the run (mutated by _create and _delete)
  params0,   \* the parameters the task was written with
  pools,     \* the server's resource pools
  json,      \* the local _json
  payload,   \* the local payload
  newId,     \* the local _id of _create
  status,    \* resp.status of the response the function holds
  result,    \* what entry_point returns (empty until it returns)
  failure,   \* the exception that ended the run
  http,      \* the HTTP exchanges of the run, in order
  run,       \* number of the run
  prev,      \* the previous run: its result, and whether it created a pool
  other      \* the requests a concurrent run on the same pool has sent

vars == <<pc, params, params0, pools, json, payload, newId, status, result,
          failure, http, run, prev, other>>

NoResult == <<>>
NoFailure == [type |-> "none", status |-> 0, text |-> JNone]
Failure(ty, st, txt) == [type |-> ty, status |-> st, text |-> txt]

\* One exchange: the request and the server's answer to it.
Exchange(method, target, body, r) ==
  [method |-> method, target |-> target, body |-> body, status |-> r.status,
   ctype |-> r.ctype, rbody |-> r.body,
   accepted |-> Is2xx(r.status) /\ ~(r.ctype = "json" /\ HasKey(r.body, "error"))]

\* "{resource_pool}".format(**params)
PathId(p) == IF "resource_pool" \in DOMAIN p THEN p["resource_pool"].v ELSE "None"

Init ==
  /\ pc = "start"
  /\ params0 \in ParamSpace
  /\ params = params0
  /\ pools \in InitPools
  /\ json = JNone
  /\ payload = <<>>
  /\ newId = JNone
  /\ status = 0
  /\ result = NoResult
  /\ failure = NoFailure
  /\ http = <<>>
  /\ run = 1
  /\ prev = [result |-> NoResult, created |-> FALSE]
  /\ other = <<>>

\* The function returns: its locals are gone.
Return(res) ==
  /\ pc' = "done"
  /\ result' = res
  /\ json' = JNone
  /\ newId' = JNone
  /\ status' = 0
  /\ failure' = failure

\* The function raises: the run ends without a result.
Raise(f) ==
  /\ pc' = "failed"
  /\ failure' = f
  /\ json' = JNone
  /\ newId' = JNone
  /\ status' = 0
  /\ result' = result

\* entry_point: state=present runs _create, state=absent runs _delete.
EntryPoint ==
  /\ pc = "start"
  /\ pc' = IF params["state"] = "present" THEN "create" ELSE "delete"
  /\ json' = IF params["state"] = "present" THEN JNone ELSE JUnbound
  /\ UNCHANGED <<params, params0, pools, payload, newId, status, result,
                 failure, http, run, prev, other>>

\* ------------------------------------------------------------------ _create
\* The try/except around resp.json(): the parsed body for a JSON Content-Type,
\* {} when the header is missing (KeyError), and the variable left as it was
\* for any other Content-Type.
ParseBody(r, old) ==
  IF r.ctype = "absent" THEN EmptyDict
  ELSE IF r.ctype = "json" THEN r.body
  ELSE old

\* The create was accepted: status 200 or 201 and no error key.
PostAccepted(st, j) == st \in {200, 201} /\ ~HasKey(j, "error")

\* The identifier read from an accepted create response.
CreateDeriveId(j) ==
  IF IsStr(j) THEN [ok |-> TRUE, id |-> j, err |-> "none"]
  ELSE IF IsDict(j) /\ ~HasKey(j, "value")
       THEN [ok |-> FALSE, id |-> JNone, err |-> "KeyError"]
  ELSE IF IsDict(j) /\ HasKey(j, "value")
       THEN [ok |-> TRUE, id |-> j.v["value"], err |-> "none"]
  ELSE [ok |-> FALSE, id |-> JNone, err |-> "UnboundLocalError"]

\* A _create that does not raise on a 500 and normalizes the response instead.
CreateOn500Returns(r) == Return(UpdateChangedFlag(r.body, r.status, "create"))

\* What _create does with a POST answered 500.
CreateOn500(r) == Raise(Failure("EmbeddedModuleFailure", r.status, r.body))

\* _create, first lookup: the direct GET by the explicit identifier.
CreateLookupId ==
  /\ pc = "create"
  /\ IF "resource_pool" \in DOMAIN params
     THEN \E r \in ServerGet(pools, PathId(params)) :
            /\ json' = GetDeviceInfo(r, PathId(params))
            /\ http' = Append(http, Exchange("GET", PathId(params), <<>>, r))
     ELSE /\ json' = JNone
          /\ http' = http
  /\ pc' = "c_exists"
  /\ UNCHANGED <<params, params0, pools, payload, newId, status, result,
                 failure, run, prev, other>>

\* lookup_with_filters: runs only with both `folder` and `name` among the
\* parameters; the argument spec has no `folder`, so it returns None at once.
LookupWithFiltersRuns(p) == "folder" \in DOMAIN p /\ "name" \in DOMAIN p

\* A lookup that takes the first candidate of any non-empty list.
AcceptsFirstCandidate(j) == j.t = "list" /\ Len(j.v) >= 1

\* isinstance(_json, list) and len(_json) == 1
AcceptsCandidate(j) == j.t = "list" /\ Len(j.v) = 1

\* What a lookup leaves: the object found (or None) and the exchanges so far.
Lookup(found, log) == [found |-> found, log |-> log]

\* A _create that runs the uniqueness lookup whatever the direct GET found.
ExistsLookupAlways(p, ps, j, log) ==
  { Lookup(IF Truthy(j) THEN j ELSE Exists(p, r, {"resource_pool"}),
           Append(log, Exchange("GET", "", <<>>, r))) : r \in ServerList(ps) }

\* if not _json: _json = await exists(...), with resource_pool as the only
\* uniqueness key.
ExistsLookup(p, ps, j, log) ==
  IF Truthy(j) THEN {Lookup(j, log)}
  ELSE { Lookup(Exists(p, r, {"resource_pool"}),
                Append(log, Exchange("GET", "", <<>>, r))) : r \in ServerList(ps) }

\* if not _json: _json = await lookup_with_filters(...): the filtered GET,
\* and the GET of the candidate by its identifier when it is the only one.
LookupWithFilters(p, ps, o) ==
  IF Truthy(o.found) \/ ~LookupWithFiltersRuns(p) THEN {o}
  ELSE UNION {
         LET log1 == Append(o.log, Exchange("GET", "?names", <<>>, f))
         IN IF AcceptsCandidate(f.body)
            THEN LET id == f.body.v[1].v["resource_pool"].v
                 IN { Lookup(GetDeviceInfo(g, id),
                             Append(log1, Exchange("GET", id, <<>>, g))) :
                        g \in ServerGet(ps, id) }
            ELSE {Lookup(JNone, log1)} : f \in ServerFilter(ps, p["name"]) }

\* _create, second and third lookup, then the branch on what was found: an
\* existing object is handed to _update under its identifier.
CreateExists ==
  /\ pc = "c_exists"
  /\ \E e \in ExistsLookup(params, pools, json, http) :
     \E o \in LookupWithFilters(params, pools, e) :
       LET found == o.found
       IN /\ http' = o.log
          /\ IF Truthy(found)
             THEN /\ params' = ("resource_pool" :> found.v["id"]) @@ params
                  /\ pc' = "update"
             ELSE /\ params' = params
                  /\ pc' = "c_post"
          /\ json' = found
  /\ UNCHANGED <<params0, pools, payload, newId, status, result, failure,
                 run, prev, other>>

\* _create: the POST and what follows its response.
CreatePost ==
  /\ pc = "c_post"
  /\ payload' = PreparePayload(params, "create")
  /\ \E o \in ServerPost(pools, payload') :
       LET r == o.resp
           j == ParseBody(r, json)
       IN /\ pools' = o.pools
          /\ http' = Append(http, Exchange("POST", "", payload', r))
          /\ IF r.status = 500 THEN CreateOn500(r)
             ELSE IF r.status \in {200, 201} /\ j.t = "none"
             THEN Raise(Failure("TypeError", r.status, JNone))
             ELSE IF PostAccepted(r.status, j)
             THEN IF CreateDeriveId(j).ok
                  THEN /\ pc' = "c_refetch"
                       /\ newId' = CreateDeriveId(j).id
                       /\ json' = j
                       /\ status' = r.status
                       /\ UNCHANGED <<result, failure>>
                  ELSE Raise(Failure(CreateDeriveId(j).err, r.status, JNone))
             ELSE Return(UpdateChangedFlag(j, r.status, "create"))
  /\ UNCHANGED <<params, params0, run, prev, other>>

\* _create: the object is fetched again by the identifier just derived.
CreateRefetch ==
  /\ pc = "c_refetch"
  /\ \E r \in ServerGet(pools, newId.v) :
       LET info == GetDeviceInfo(r, newId.v)
       IN /\ http' = Append(http, Exchange("GET", newId.v, <<>>, r))
          /\ Return(UpdateChangedFlag(IF Truthy(info) THEN info ELSE json,
                                      status, "create"))
  /\ UNCHANGED <<params, params0, pools, payload, run, prev, other>>

\* ------------------------------------------------------------------ _update
\* A pruning loop without the `elif payload[k] == v` branch.
KeepFieldScalarKept(pl, value, k) ==
  IF k \notin DOMAIN value.v THEN TRUE
  ELSE IF IsDict(pl[k]) /\ IsDict(value.v[k])
       THEN \E sk \in DOMAIN pl[k].v :
              ~(sk \in DOMAIN value.v[k].v /\ pl[k].v[sk] = value.v[k].v[sk])
  ELSE IF PyEq(pl[k], EmptyDict) THEN FALSE
  ELSE TRUE

\* A pruning loop whose to_delete flag is set by any matching sub-key.
KeepFieldAnySubKey(pl, value, k) ==
  IF k \notin DOMAIN value.v THEN TRUE
  ELSE IF IsDict(pl[k]) /\ IsDict(value.v[k])
       THEN \A sk \in DOMAIN pl[k].v :
              ~(sk \in DOMAIN value.v[k].v /\ pl[k].v[sk] = value.v[k].v[sk])
  ELSE IF PyEq(pl[k], value.v[k]) THEN FALSE
  ELSE IF PyEq(pl[k], EmptyDict) THEN FALSE
  ELSE TRUE

\* Whether the loop over the observed fields leaves desired field k in place.
KeepField(pl, value, k) ==
  IF k \notin DOMAIN value.v THEN TRUE
  ELSE IF IsDict(pl[k]) /\ IsDict(value.v[k])
       THEN \E sk \in DOMAIN pl[k].v :
              ~(sk \in DOMAIN value.v[k].v /\ pl[k].v[sk] = value.v[k].v[sk])
  ELSE IF PyEq(pl[k], value.v[k]) THEN FALSE
  ELSE IF PyEq(pl[k], EmptyDict) THEN FALSE
  ELSE TRUE

\* An _update that also drops the matching sub-keys of a field it keeps.
PrunePayloadNested(pl, value) ==
  [k \in {x \in DOMAIN pl : KeepField(pl, value, x)} |->
     IF k \in DOMAIN value.v /\ IsDict(pl[k]) /\ IsDict(value.v[k])
     THEN JDict([sk \in {s \in DOMAIN pl[k].v :
                           ~(s \in DOMAIN value.v[k].v
                               /\ pl[k].v[s] = value.v[k].v[s])} |-> pl[k].v[sk]])
     ELSE pl[k]]

\* An _update that sends every rendered field.
PrunePayloadKeepsAll(pl, value) == pl

\* The payload after the fields that already match the observed value are
\* deleted from it.
PrunePayload(pl, value) ==
  [k \in {x \in DOMAIN pl : KeepField(pl, value, x)} |-> pl[k]]

\* payload == {} or payload == {"spec": {}}
NothingToChange(pl) ==
  \/ DOMAIN pl = {}
  \/ (DOMAIN pl = {"spec"} /\ PyEq(pl["spec"], EmptyDict))

\* {"value": _json} unless _json has a value key already.
WrapValue(j) == IF HasKey(j, "value") THEN j ELSE JDict("value" :> j)

\* An _update that leaves an id of the response in place.
WithIdOfResponse(j, p) == JDict(j.v @@ ("id" :> p["resource_pool"]))

\* _json["id"] = params.get("resource_pool")
WithId(j, p) == JDict(("id" :> p["resource_pool"]) @@ j.v)

\* The condition of the follow-up GET after the PATCH.
NeedsFollowUp(j, st) == ~Truthy(j) /\ st = 204

\* _update: the GET of the object, the pruning of the payload and the return
\* when nothing is left to change.
UpdateGet ==
  /\ pc = "update"
  /\ \E r \in ServerGet(pools, PathId(params)) :
       LET value == Unwrap(r.body)
           pruned == PrunePayload(PreparePayload(params, "update"), value)
       IN /\ http' = Append(http, Exchange("GET", PathId(params), <<>>, r))
          /\ payload' = pruned
          /\ IF NothingToChange(pruned)
             THEN Return(UpdateChangedFlag(WithId(WrapValue(r.body), params),
                                           r.status, "get"))
             ELSE /\ pc' = "u_patch"
                  /\ json' = r.body
                  /\ status' = r.status
                  /\ UNCHANGED <<newId, result, failure>>
  /\ UNCHANGED <<params, params0, pools, run, prev, other>>

\* An _update that sends the PATCH again when it is not answered 2xx.
UpdatePatchRetries ==
  /\ pc = "u_patch"
  /\ \E o \in ServerPatch(pools, PathId(params), payload) :
       LET r == o.resp
       IN /\ pools' = o.pools
          /\ http' = Append(http, Exchange("PATCH", PathId(params), payload, r))
          /\ IF Is2xx(r.status)
             THEN Return(UpdateChangedFlag(
                           WithId(WrapValue(ParseBody(r, json)), params),
                           r.status, "update"))
             ELSE UNCHANGED <<pc, json, newId, status, result, failure>>
  /\ UNCHANGED <<params, params0, payload, run, prev, other>>

\* _update: the PATCH with the pruned payload, the follow-up GET when the
\* condition for it holds, and the return.
UpdatePatch ==
  /\ pc = "u_patch"
  /\ \E o \in ServerPatch(pools, PathId(params), payload) :
       LET r == o.resp
           j == WrapValue(ParseBody(r, json))
       IN /\ pools' = o.pools
          /\ IF NeedsFollowUp(j, r.status)
             THEN \E g \in ServerGet(o.pools, PathId(params)) :
                    /\ http' = http \o <<Exchange("PATCH", PathId(params), payload, r),
                                         Exchange("GET", PathId(params), <<>>, g)>>
                    /\ Return(UpdateChangedFlag(
                                WithId(IF Truthy(g.body) THEN g.body ELSE j, params),
                                r.status, "update"))
             ELSE /\ http' = Append(http, Exchange("PATCH", PathId(params), payload, r))
                  /\ Return(UpdateChangedFlag(WithId(j, params), r.status, "update"))
  /\ UNCHANGED <<params, params0, payload, run, prev, other>>

\* ------------------------------------------------------------------ _delete
\* _delete: the identifier is looked up when the resource type supports it and
\* none is given.
DeleteResolve ==
  /\ pc = "delete"
  /\ payload' = PreparePayload(params, "delete")
  /\ \E sub \in SubdeviceTypes :
       IF Truthy(sub) /\ sub.v \notin DOMAIN params
       THEN \E r \in ServerList(pools) :
              LET found == Exists(params, r, DefaultUniquityKeys)
              IN /\ http' = Append(http, Exchange("GET", "", <<>>, r))
                 /\ json' = found
                 /\ params' = IF Truthy(found)
                              THEN (sub.v :> found.v["id"]) @@ params
                              ELSE params
       ELSE UNCHANGED <<http, json, params>>
  /\ pc' = "d_delete"
  /\ UNCHANGED <<params0, pools, newId, status, result, failure, run, prev, other>>

\* _delete: the DELETE and the return.
DeleteCall ==
  /\ pc = "d_delete"
  /\ \E o \in ServerDelete(pools, PathId(params)) :
       LET r == o.resp
           j == ParseBody(r, json)
       IN /\ pools' = o.pools
          /\ http' = Append(http, Exchange("DELETE", PathId(params), payload, r))
          /\ IF j.t = "unbound"
             THEN Raise(Failure("UnboundLocalError", r.status, JNone))
             ELSE Return(UpdateChangedFlag(j, r.status, "delete"))
  /\ UNCHANGED <<params, params0, payload, run, prev, other>>

\* --------------------------------------------------------------------- runs
\* The task is run again with the parameters it was written with.
Rerun ==
  /\ pc = "done"
  /\ run < MaxRuns
  /\ pc' = "start"
  /\ run' = run + 1
  /\ prev' = [result |-> result,
               created |-> \E i \in 1 .. Len(http) :
                             http[i].method = "POST" /\ http[i].accepted]
  /\ params' = params0
  /\ result' = NoResult
  /\ payload' = <<>>
  /\ http' = <<>>
  /\ UNCHANGED <<params0, pools, json, newId, status, failure, other>>

Next ==
  \/ EntryPoint
  \/ CreateLookupId
  \/ CreateExists
  \/ CreatePost
  \/ CreateRefetch
  \/ UpdateGet
  \/ UpdatePatch
  \/ DeleteResolve
  \/ DeleteCall
  \/ Rerun

Spec == Init /\ [][Next]_vars

\* ---------------------------------------------- _create with a folder given
\* _create reads params["folder"]: the parameters it is called with here may
\* carry a folder next to the fields of the argument spec, and the server may
\* hold two pools, of the same name or not. (module.params of this module has
\* no folder key: those runs are the ones of Spec with state=present.)
Folders == {"group-v1"}

CreateParamSpace ==
  { Opt("folder", fo) @@ p :
      p \in {q \in ParamSpace : q["state"] = "present"},
      fo \in {{}} \cup {{JStr(f)} : f \in Folders} }

TwoPools ==
  { ("rp1" :> PoolObject(JStr("a"), DefaultCpu, DefaultMem))
      @@ ("rp2" :> PoolObject(JStr(n), DefaultCpu, DefaultMem)) :
      n \in ObservedNames }

InitCreate ==
  /\ pc = "start"
  /\ params0 \in CreateParamSpace
  /\ params = params0
  /\ pools \in InitPools \cup TwoPools
  /\ json = JNone
  /\ payload = <<>>
  /\ newId = JNone
  /\ status = 0
  /\ result = NoResult
  /\ failure = NoFailure
  /\ http = <<>>
  /\ run = 1
  /\ prev = [result |-> NoResult, created |-> FALSE]
  /\ other = <<>>

NextCreate ==
  \/ EntryPoint
  \/ CreateLookupId
  \/ CreateExists
  \/ CreatePost
  \/ CreateRefetch
  \/ UpdateGet
  \/ UpdatePatch

SpecCreate == InitCreate /\ [][NextCreate]_vars

\* ------------------------------------ _update against an object with gaps
\* The tasks that name the pool to reconcile, run against a server whose
\* answer for the pool may lack any of its fields.
UpdateParamSpace ==
  {p \in ParamSpace :
     /\ p["state"] = "present"
     /\ "resource_pool" \in DOMAIN p /\ p["resource_pool"] = JStr("rp1")}

PartialPools ==
  { ("rp1" :> [k \in S |-> o[k]]) : S \in SUBSET PoolFields, o \in
      { PoolObject(JStr(n), [limit |-> l, reservation |-> 0], DefaultMem) :
          n \in ObservedNames, l \in Limits } }

InitUpdate ==
  /\ pc = "start"
  /\ params0 \in UpdateParamSpace
  /\ params = params0
  /\ pools \in PartialPools
  /\ json = JNone
  /\ payload = <<>>
  /\ newId = JNone
  /\ status = 0
  /\ result = NoResult
  /\ failure = NoFailure
  /\ http = <<>>
  /\ run = 1
  /\ prev = [result |-> NoResult, created |-> FALSE]
  /\ other = <<>>

NextUpdate ==
  \/ EntryPoint
  \/ CreateLookupId
  \/ CreateExists
  \/ UpdateGet
  \/ UpdatePatch

SpecUpdate == InitUpdate /\ [][NextUpdate]_vars

\* ------------------------------------------ a concurrent run on the same pool
\* The module takes no lock. A second run of the module on the same resource
\* pool, started by another task, shows to this run only through what its
\* mutating requests do to the server: it renames the pool with a PATCH, or
\* creates a pool of the name this run has with a POST.
MaxOther == 1

OtherRequests(p) ==
  { [method |-> "PATCH", target |-> PathId(p),
     body |-> ("name" :> JStr("b"))] }
    \cup (IF "name" \in DOMAIN p
          THEN { [method |-> "POST", target |-> "", body |-> ("name" :> p["name"])] }
          ELSE {})

\* The states of the server after it served the request.
ServedPools(ps, req) ==
  IF req.method = "PATCH"
  THEN { o.pools : o \in ServerPatch(ps, req.target, req.body) }
  ELSE { o.pools : o \in ServerPost(ps, req.body) }

\* A request of the concurrent run is served while this run is between two
\* of its own requests.
OtherRequest ==
  /\ pc \in {"create", "c_exists", "c_post", "c_refetch", "update", "u_patch"}
  /\ Len(other) < MaxOther
  /\ \E req \in OtherRequests(params) :
     \E ps \in ServedPools(pools, req) :
       /\ pools' = ps
       /\ other' = Append(other, [method |-> req.method, target |-> req.target,
                                   at |-> Len(http)])
  /\ UNCHANGED <<pc, params, params0, json, payload, newId, status, result,
                 failure, http, run, prev>>

\* The state=present tasks that give no memory allocation and no parent.
ConcParamSpace ==
  {p \in ParamSpace :
     p["state"] = "present" /\ "memory_allocation" \notin DOMAIN p
       /\ "parent" \notin DOMAIN p}

InitConc ==
  /\ pc = "start"
  /\ params0 \in ConcParamSpace
  /\ params = params0
  /\ pools \in InitPools
  /\ json = JNone
  /\ payload = <<>>
  /\ newId = JNone
  /\ status = 0
  /\ result = NoResult
  /\ failure = NoFailure
  /\ http = <<>>
  /\ run = 1
  /\ prev = [result |-> NoResult, created |-> FALSE]
  /\ other = <<>>

NextConc ==
  \/ EntryPoint
  \/ CreateLookupId
  \/ CreateExists
  \/ CreatePost
  \/ CreateRefetch
  \/ UpdateGet
  \/ UpdatePatch
  \/ OtherRequest

SpecConc == InitConc /\ [][NextConc]_vars

\* --------------------------------------------------- main of the two modules
\* The connection parameters: each is missing, the empty string, or given.
ConnKeys == {"vcenter_hostname", "vcenter_username", "vcenter_password"}

ConnSpace ==
  { Opt("vcenter_hostname", h) @@ Opt("vcenter_username", u)
      @@ Opt("vcenter_password", pw) :
      h \in {{}, {JStr("")}, {JStr("vcenter")}},
      u \in {{}, {JStr("")}, {JStr("user")}},
      pw \in {{}, {JStr("")}, {JStr("secret")}} }

\* The tasks of the resource-pool module that give no allocation and no parent.
MainParamSpace ==
  { c @@ p : c \in ConnSpace,
             p \in {q \in ParamSpace :
                      DOMAIN q \subseteq {"state", "resource_pool", "name"}} }

\* The tasks of the SCSI-adapter info module: vm and adapter are optional
\* strings.
InfoParamSpace ==
  { c @@ Opt("vm", vm) @@ Opt("adapter", ad) :
      c \in ConnSpace,
      vm \in {{}, {JStr("vm1")}},
      ad \in {{}, {JStr("")}, {JStr("1000")}, {JStr("1001")}} }

\* The SCSI adapters the server holds for vm1, by identifier.
AdapterObject == [label |-> JStr("SCSI controller 0"), type |-> JStr("PVSCSI")]
InitAdapters == {<<>>, ("1000" :> AdapterObject)}

\* AnsibleModule(argument_spec=...): a parameter declared required=True and
\* not given ends the run in fail_json.
RequiredMissing(p) == \E k \in ConnKeys : k \notin DOMAIN p

\* open_session: the session is opened with the three connection parameters;
\* it cannot succeed with an empty one.
OpenSession(p) ==
  { Resp(401, "json", ErrorBody) }
    \cup (IF \A k \in ConnKeys : Truthy(p[k])
          THEN { Resp(200, "json", JDict("value" :> JStr("session-id"))) }
          ELSE {})

\* fail_json(msg)
FailJson(msg) == Raise(Failure("fail_json", 0, JStr(msg)))

\* main of vcenter_resourcepool up to the call of entry_point.
Main ==
  /\ pc = "main"
  /\ IF RequiredMissing(params)
     THEN FailJson("missing required arguments") /\ UNCHANGED http
     ELSE IF \E k \in ConnKeys : ~Truthy(params[k])
     THEN FailJson("cannot be empty") /\ UNCHANGED http
     ELSE \E r \in OpenSession(params) :
            /\ http' = Append(http, Exchange("OPEN", "session", <<>>, r))
            /\ IF r.status = 200
               THEN /\ pc' = "start"
                    /\ UNCHANGED <<json, newId, status, result, failure>>
               ELSE FailJson("session")
  /\ UNCHANGED <<params, params0, pools, payload, run, prev, other>>

\* main of vcenter_vm_hardware_adapter_scsi_info up to the call of
\* entry_point: an open_session that raises is not caught.
InfoMain ==
  /\ pc = "info_main"
  /\ IF RequiredMissing(params)
     THEN FailJson("missing required arguments") /\ UNCHANGED http
     ELSE \E r \in OpenSession(params) :
            /\ http' = Append(http, Exchange("OPEN", "session", <<>>, r))
            /\ IF r.status = 200
               THEN /\ pc' = "info_entry"
                    /\ UNCHANGED <<json, newId, status, result, failure>>
               ELSE Raise(Failure("EmbeddedModuleFailure", r.status, r.body))
  /\ UNCHANGED <<params, params0, pools, payload, run, prev, other>>

\* "{vm}".format(**params): a parameter that is None is formatted as "None".
Formatted(p, k) == IF k \in DOMAIN p THEN p[k].v ELSE "None"

\* A build_url that always builds the list URL.
InfoBuildUrlList(p) == <<Formatted(p, "vm")>>

\* build_url of the info module: the path of the adapter when one is given
\* and not empty, of the adapters of the vm otherwise.
InfoBuildUrl(p) ==
  IF "adapter" \in DOMAIN p /\ Truthy(p["adapter"])
  THEN <<Formatted(p, "vm"), Formatted(p, "adapter")>>
  ELSE <<Formatted(p, "vm")>>

\* GET /rest/vcenter/vm/<vm>/hardware/adapter/scsi[/<adapter>]: the adapter
\* or the list of the adapters' summaries in the {value: ...} envelope; 404
\* for an unknown vm or adapter.
ServerScsi(ads, path) ==
  IF path[1] # "vm1" THEN { Resp(404, "json", ErrorBody) }
  ELSE IF Len(path) = 2
  THEN IF path[2] \in DOMAIN ads
       THEN { Resp(200, "json", JDict("value" :> JDict(ads[path[2]]))) }
       ELSE { Resp(404, "json", ErrorBody) }
  ELSE LET ids == SeqOfIds(DOMAIN ads)
       IN { Resp(200, "json",
                 JDict("value" :>
                         JList([i \in 1 .. Len(ids) |->
                                  JDict("adapter" :> JStr(ids[i]))]))) }

\* entry_point of the info module.
InfoEntryPoint ==
  /\ pc = "info_entry"
  /\ \E r \in ServerScsi(pools, InfoBuildUrl(params)) :
       /\ http' = Append(http, Exchange("GET", InfoBuildUrl(params), <<>>, r))
       /\ IF "adapter" \in DOMAIN params /\ Truthy(params["adapter"])
          THEN IF IsDict(r.body)
               THEN Return(UpdateChangedFlag(
                             JDict(("id" :> params["adapter"]) @@ r.body.v),
                             r.status, "get"))
               ELSE Raise(Failure("TypeError", r.status, JNone))
          ELSE Return(UpdateChangedFlag(r.body, r.status, "get"))
  /\ UNCHANGED <<params, params0, pools, payload, run, prev, other>>

InitMain ==
  /\ \/ pc = "main" /\ params0 \in MainParamSpace /\ pools \in InitPools
     \/ pc = "info_main" /\ params0 \in InfoParamSpace /\ pools \in InitAdapters
  /\ params = params0
  /\ json = JNone
  /\ payload = <<>>
  /\ newId = JNone
  /\ status = 0
  /\ result = NoResult
  /\ failure = NoFailure
  /\ http = <<>>
  /\ run = 1
  /\ prev = [result |-> NoResult, created |-> FALSE]
  /\ other = <<>>

NextMain ==
  \/ Main
  \/ InfoMain
  \/ InfoEntryPoint
  \/ EntryPoint
  \/ CreateLookupId
  \/ CreateExists
  \/ CreatePost
  \/ CreateRefetch
  \/ UpdateGet
  \/ UpdatePatch
  \/ DeleteResolve
  \/ DeleteCall

SpecMain == InitMain /\ [][NextMain]_vars

\* ------------------------------------------------------------------- claims
Mutating == {"POST", "PATCH", "DELETE"}
Sent(m) == {i \in 1 .. Len(http) : http[i].method = m}
Returned == pc = "done" /\ "changed" \in DOMAIN result
Last == http[Len(http)]

\* C1 (as stated): when the first run with state=present created the pool,
\* the second run with the same parameters sends no POST, does not fail, and
\* returns changed=false with the id of the first run.
C1_Idempotent ==
  (run > 1 /\ params0["state"] = "present" /\ prev.created
     /\ prev.result["changed"] = TRUE)
  => /\ Sent("POST") = {}
     /\ pc # "failed"
     /\ Returned => /\ result["changed"] = FALSE
                    /\ "id" \in DOMAIN result
                    /\ "id" \in DOMAIN prev.result
                    /\ result["id"] = prev.result["id"]

\* A desired field matches the observed one: equal, or, for an object, equal
\* in every sub-key the desired value gives.
FieldMatches(p, v) ==
  IF IsDict(p) /\ IsDict(v)
  THEN \A sk \in DOMAIN p.v : sk \in DOMAIN v.v /\ p.v[sk] = v.v[sk]
  ELSE PyEq(p, v)

Rendered == PreparePayload(params, "update")
Observed == pools[PathId(params)]

\* C2: when _update starts and every field of the rendered update payload
\* matches the observed object, the step ends the run with an empty payload,
\* without a PATCH, and with changed=false.
C2_PrunedToNothing ==
  [][(pc = "update"
        /\ \A k \in DOMAIN Rendered :
             k \in DOMAIN Observed /\ FieldMatches(Rendered[k], Observed[k]))
     => /\ pc' = "done"
        /\ payload' = <<>>
        /\ result'["changed"] = FALSE
        /\ \A i \in 1 .. Len(http') : http'[i].method # "PATCH"]_vars

\* C2 witness: a run given update fields that all match ended without a PATCH.
C2_Witness ==
  /\ Returned
  /\ result["changed"] = FALSE
  /\ Sent("PATCH") = {}
  /\ Len(http) > 0 /\ Last.method = "GET" /\ Last.target = PathId(params)
  /\ {"name", "cpu_allocation"} \subseteq DOMAIN Rendered
  /\ payload = <<>>

\* C3 (as stated): with state=absent and no object under the identifier the
\* DELETE would name, no DELETE is sent and the run returns changed=false.
C3_AbsentOnAbsent ==
  [][(pc = "d_delete" /\ PathId(params) \notin DOMAIN pools)
     => /\ \A i \in 1 .. Len(http') : http'[i].method # "DELETE"
        /\ pc' = "done"
        /\ result'["changed"] = FALSE]_vars

\* C4 (as stated): a returned changed=true means that a mutating request was
\* sent in the run and accepted by the server (2xx, no error key in its body).
C4_ChangedOnlyIfAccepted ==
  (Returned /\ result["changed"] = TRUE)
  => \E i \in 1 .. Len(http) : http[i].method \in Mutating /\ http[i].accepted

\* C5: for a desired object field with an observed object, a differing
\* sub-key keeps the whole field, all its desired sub-keys included, in the
\* payload of the PATCH; the field is dropped only if every sub-key matches.
C5_NestedAllOrNothing ==
  [][pc = "update"
     => \A k \in DOMAIN Rendered :
          (k \in DOMAIN Observed /\ IsDict(Rendered[k]) /\ IsDict(Observed[k]))
          => /\ ~FieldMatches(Rendered[k], Observed[k])
                => (k \in DOMAIN payload' /\ payload'[k] = Rendered[k])
             /\ k \notin DOMAIN payload'
                => FieldMatches(Rendered[k], Observed[k])]_vars

\* C5 witness: cpu_allocation goes to the PATCH whole, with one sub-key that
\* matches the observed value and one that differs.
C5_Witness ==
  /\ pc = "u_patch"
  /\ "cpu_allocation" \in DOMAIN payload
  /\ payload["cpu_allocation"] = params["cpu_allocation"]
  /\ \E a, b \in DOMAIN payload["cpu_allocation"].v :
       /\ payload["cpu_allocation"].v[a] = Observed.cpu_allocation.v[a]
       /\ payload["cpu_allocation"].v[b] # Observed.cpu_allocation.v[b]

\* The identifier the server assigned, as the create response carries it.
AssignedId(b) ==
  IF IsStr(b) THEN b
  ELSE IF HasKey(b, "value") THEN b.v["value"]
  ELSE b.v["resource_pool"]

\* C6 (as stated): after a create accepted with status 200 or 201 and a JSON
\* body (bare identifier, {value: id}, or the object without a value key) the
\* run does not raise, and it returns changed=true with the assigned id.
C6_CreateShapes ==
  \A i \in Sent("POST") :
    (http[i].status \in {200, 201} /\ http[i].ctype = "json"
       /\ ~HasKey(http[i].rbody, "error"))
    => /\ pc # "failed"
       /\ Returned => /\ result["changed"] = TRUE
                      /\ "id" \in DOMAIN result
                      /\ result["id"] = AssignedId(http[i].rbody)

\* C7 (as stated): a PATCH answered 204 without a body is followed by exactly
\* one GET of the same URL.
C7_FollowUpGet ==
  \A i \in Sent("PATCH") :
    (http[i].status = 204 /\ http[i].ctype = "absent" /\ pc = "done")
    => /\ Len(http) = i + 1
       /\ http[i + 1].method = "GET"
       /\ http[i + 1].target = http[i].target

\* C8: a create POST answered 500 ends the run with a failure that carries the
\* status and the response text; nothing is returned and the POST is the last
\* request of the run.
C8_Create500Fatal ==
  \A i \in Sent("POST") :
    http[i].status = 500
    => /\ pc = "failed"
       /\ failure.type = "EmbeddedModuleFailure"
       /\ failure.status = 500
       /\ failure.text = http[i].rbody
       /\ result = NoResult
       /\ i = Len(http)

\* C8 witness: a run ended by the 500 of its POST.
C8_Witness ==
  /\ pc = "failed"
  /\ Len(http) > 0 /\ Last.method = "POST" /\ Last.status = 500
  /\ failure.status = 500

\* C9 (as stated): a run issues at most two HTTP requests.
C9_AtMostTwo == Len(http) <= 2

MutatingSent == {i \in 1 .. Len(http) : http[i].method \in Mutating}

\* C9 (amended): a run issues at most four requests: at most two lookups and
\* the GET of _update come before the one mutating request (at most three GETs
\* before it), and at most one GET follows it.
C9_AtMostFour ==
  /\ Len(http) <= 4
  /\ Cardinality(MutatingSent) <= 1
  /\ \A i \in MutatingSent : i <= 3 /\ Len(http) <= i + 1

\* C9 witness: a create run of four requests: GET by identifier, list, POST,
\* re-fetch.
C9_Witness ==
  /\ Returned
  /\ Len(http) = 4
  /\ http[3].method = "POST"

\* C10 (as stated): a DELETE answered 200 or 204 makes the run return
\* changed=true without raising, with a JSON body, without a Content-Type, or
\* with another Content-Type.
C10_DeleteSuccess ==
  \A i \in Sent("DELETE") :
    (http[i].status \in {200, 204}
       /\ ~(http[i].ctype = "json" /\ HasKey(http[i].rbody, "error")))
    => /\ pc = "done"
       /\ result["changed"] = TRUE

\* C12: whether the GET of _update is answered enveloped or bare, the pruned
\* payload is the one computed against the observed object itself, and on the
\* nothing-to-change path the result is that object under the identifier with
\* changed=false: the outcome does not depend on the shape of the response.
C12_EnvelopeTolerance ==
  [][(pc = "update" /\ PathId(params) \in DOMAIN pools)
     => LET kept == {k \in DOMAIN Rendered :
                       ~(k \in DOMAIN Observed
                           /\ FieldMatches(Rendered[k], Observed[k]))}
        IN /\ payload' = [k \in kept |-> Rendered[k]]
           /\ (pc' = "u_patch") = (kept # {})
           /\ kept = {} =>
                 /\ pc' = "done"
                 /\ result' = ("changed" :> FALSE)
                                @@ ("id" :> params["resource_pool"])
                                @@ ("value" :> JDict(Observed))]_vars

\* C12 witness: an enveloped GET response ended a run on the nothing-to-change
\* path although update fields were given.
C12_Witness ==
  /\ Returned
  /\ Len(http) > 0 /\ Last.method = "GET" /\ Last.target = PathId(params)
  /\ HasKey(Last.rbody, "value")
  /\ DOMAIN Rendered # {}
  /\ result["value"] = JDict(Observed)

\* C14: the body of a PATCH holds no key outside cpu_allocation,
\* memory_allocation and name (parent is never sent on an update), the body of
\* a POST none outside these and parent, the body of a DELETE is empty; a
\* field given but not declared for the operation is left out without an
\* error: no run fails before its mutating request is sent.
C14_DeclaredFieldsOnly ==
  /\ \A i \in 1 .. Len(http) :
       /\ http[i].method = "PATCH" =>
            DOMAIN http[i].body \subseteq {"cpu_allocation", "memory_allocation", "name"}
       /\ http[i].method = "POST" =>
            DOMAIN http[i].body
              \subseteq {"cpu_allocation", "memory_allocation", "name", "parent"}
       /\ http[i].method = "DELETE" => http[i].body = <<>>
  /\ pc = "failed" => MutatingSent # {}

\* C14 witness: a PATCH was sent for a task that gives parent, and a field of
\* the update body went with it.
C14_Witness ==
  /\ Returned
  /\ "parent" \in DOMAIN params
  /\ \E i \in Sent("PATCH") : DOMAIN http[i].body # {}

\* The three lookups of _create as they show in the exchanges of a run.
IsLookupById(i) ==
  /\ i = 1 /\ http[i].method = "GET"
  /\ "resource_pool" \in DOMAIN params0
  /\ http[i].target = params0["resource_pool"].v
IsKeyLookup(i) == http[i].method = "GET" /\ http[i].target = ""
IsFilterLookup(i) == http[i].method = "GET" /\ http[i].target = "?names"

\* The list answered to the uniqueness lookup has exactly one pool under the
\* identifier given.
KeyLookupFinds(i) ==
  /\ "resource_pool" \in DOMAIN params0
  /\ Cardinality({k \in 1 .. Len(http[i].rbody.v) :
                    http[i].rbody.v[k].v["resource_pool"] = params0["resource_pool"]}) = 1

\* The filter lookup got one candidate and the GET of it was answered 200.
FilterFinds(i) ==
  /\ Len(http[i].rbody.v) = 1
  /\ i < Len(http) /\ http[i + 1].method = "GET" /\ http[i + 1].status = 200

\* C17: with state=present the uniqueness lookup is sent only first or after
\* a direct GET by identifier that found nothing, the filter lookup only
\* right after a uniqueness lookup that found nothing, and a POST only after
\* lookups that all found nothing: a lookup that finds is followed by no
\* further lookup and by no POST.
C17_LookupPriority ==
  /\ \A i \in 1 .. Len(http) :
       IsKeyLookup(i) =>
         \/ i = 1 /\ "resource_pool" \notin DOMAIN params0
         \/ i = 2 /\ IsLookupById(1) /\ http[1].status # 200
  /\ \A i \in 1 .. Len(http) :
       IsFilterLookup(i) => i >= 2 /\ IsKeyLookup(i - 1) /\ ~KeyLookupFinds(i - 1)
  /\ \A i \in Sent("POST") :
       /\ i >= 2
       /\ \A j \in 1 .. (i - 1) :
            /\ http[j].method = "GET"
            /\ http[j].target \notin {"", "?names"} => http[j].status # 200
            /\ IsKeyLookup(j) => ~KeyLookupFinds(j)
            /\ IsFilterLookup(j) => ~FilterFinds(j)

\* C17 witness: a run sent the POST as its fourth request, after the direct
\* GET, the uniqueness lookup and the filter lookup had all found nothing.
C17_Witness ==
  /\ pc = "done"
  /\ 4 \in Sent("POST")
  /\ IsLookupById(1) /\ IsKeyLookup(2) /\ IsFilterLookup(3)

\* C18: a filter lookup answered with more than one candidate is followed by
\* the POST, with no failure and no PATCH in between or after; the GET of a
\* candidate follows a filter lookup only when it returned exactly one element,
\* and it is the GET of that element.
C18_AmbiguousIsNotFound ==
  \A i \in 1 .. Len(http) :
    IsFilterLookup(i) =>
      /\ Len(http[i].rbody.v) > 1 =>
           /\ IF i = Len(http) THEN pc = "c_post" ELSE http[i + 1].method = "POST"
           /\ Sent("PATCH") = {}
           /\ Len(http) <= i + 2
      /\ (i < Len(http) /\ http[i + 1].method = "GET") =>
           /\ Len(http[i].rbody.v) = 1
           /\ JStr(http[i + 1].target) = http[i].rbody.v[1].v["resource_pool"]
      /\ Sent("PATCH") # {} => Len(http[i].rbody.v) = 1

\* C18 witness: the filter lookup returned two candidates and the POST was
\* sent next.
C18_Witness ==
  \E i \in 1 .. Len(http) :
    /\ IsFilterLookup(i)
    /\ Len(http[i].rbody.v) = 2
    /\ i < Len(http) /\ http[i + 1].method = "POST"

\* C19 (as stated): a run sends at most one mutating request, sends no request
\* again after a non-2xx answer to it, and a mutating request answered non-2xx
\* ends the run as a failure that carries the status and the response text.
C19_NoRetryFatal ==
  /\ Cardinality(MutatingSent) <= 1
  /\ \A i \in 1 .. (Len(http) - 1) :
       ~Is2xx(http[i].status)
       => ~(http[i + 1].method = http[i].method
              /\ http[i + 1].target = http[i].target)
  /\ \A i \in MutatingSent :
       ~Is2xx(http[i].status)
       => /\ pc = "failed"
          /\ failure.status = http[i].status
          /\ failure.text = http[i].rbody

\* C20: every result of _update carries the identifier _update was called
\* with, whatever the responses hold, and on the nothing-to-change path its
\* value is the object the GET observed.
C20_UpdateResultId ==
  [][(pc \in {"update", "u_patch"} /\ pc' = "done")
     => /\ "id" \in DOMAIN result'
        /\ result'["id"] = params["resource_pool"]
        /\ pc = "update" => result'["value"] = JDict(Observed)]_vars

\* C20 witness: a PATCH answered with an id of the server's own ended a run
\* whose result carries the identifier of the task.
C20_Witness ==
  /\ Returned
  /\ Len(http) > 0 /\ Last.method = "PATCH"
  /\ HasKey(Last.rbody, "id")
  /\ Last.rbody.v["id"] # params["resource_pool"]
  /\ result["id"] = params["resource_pool"]

\* A run of the info module (its parameters have no state).
InfoRun == "state" \notin DOMAIN params0
AdapterGiven == "adapter" \in DOMAIN params0 /\ Truthy(params0["adapter"])

\* C11 (as stated): when the GET of the info module for a given adapter is
\* answered 404, the run ends as a failure that carries the status and the
\* response text, and returns no result.
C11_Info404Fatal ==
  \A i \in Sent("GET") :
    (InfoRun /\ AdapterGiven /\ http[i].status = 404)
    => /\ pc = "failed"
       /\ failure.status = 404
       /\ failure.text = http[i].rbody
       /\ result = NoResult

\* C13 (as stated): in both modules a run whose vcenter_hostname,
\* vcenter_username or vcenter_password is missing or empty opens no session
\* and sends no request: it is still in main or has failed.
C13_FailsBeforeSession ==
  (\E k \in ConnKeys : k \notin DOMAIN params0 \/ ~Truthy(params0[k]))
  => /\ http = <<>>
     /\ pc \in {"main", "info_main", "failed"}

\* C15: a run of the info module sends no POST, PATCH or DELETE and at most
\* one GET; when its entry_point is over it has sent exactly one GET, to the
\* path of the adapter when one is given and to the list of the vm's adapters
\* otherwise, and a result has changed=false.
C15_InfoReadOnly ==
  InfoRun =>
    /\ MutatingSent = {}
    /\ Cardinality(Sent("GET")) <= 1
    /\ (pc = "done" \/ Sent("GET") # {}) =>
         /\ Cardinality(Sent("GET")) = 1
         /\ \A i \in Sent("GET") :
              /\ i = Len(http)
              /\ http[i].target =
                   IF AdapterGiven
                   THEN <<Formatted(params0, "vm"), params0["adapter"].v>>
                   ELSE <<Formatted(params0, "vm")>>
    /\ pc = "done" => result["changed"] = FALSE

\* C15 witness: a run of the info module for a given adapter returned after
\* its one GET.
C15_Witness ==
  /\ InfoRun /\ AdapterGiven
  /\ Returned
  /\ Cardinality(Sent("GET")) = 1
  /\ Last.status = 200

\* Request k of the concurrent run fell after a GET of this run and before the
\* mutating request this run sent to the same target.
Split(k) ==
  \E i, j \in 1 .. Len(http) :
    /\ i <= other[k].at /\ other[k].at < j
    /\ http[i].method = "GET"
    /\ http[j].method \in {"PATCH", "POST"}
    /\ http[j].target = other[k].target

\* C16 (as stated): no request of a concurrent run on the same resource pool
\* falls between the GET and the PATCH of _update, or between the lookups and
\* the POST of _create.
C16_NeverSplit == \A k \in 1 .. Len(other) : ~Split(k)

\* What _update leaves of the rendered payload against the body of a GET.
KeptAgainst(b) ==
  LET obs == IF HasKey(b, "value") THEN b.v["value"] ELSE b
  IN {k \in DOMAIN Rendered :
        ~(k \in DOMAIN obs.v /\ FieldMatches(Rendered[k], obs.v[k]))}

\* C16 (amended): the requests of a run follow one another with nothing of
\* its own in between, and its mutating request is decided from what its own
\* GETs were answered, whatever a concurrent run has changed since: a PATCH
\* comes right after the GET of the same pool and its body is the rendered
\* payload pruned against the answer to that GET; a POST comes after GETs only,
\* none of which was a GET by identifier answered 200.
C16_DecidedFromOwnGet ==
  /\ \A j \in Sent("PATCH") :
       /\ j >= 2
       /\ http[j - 1].method = "GET" /\ http[j - 1].target = http[j].target
       /\ http[j].body = [k \in KeptAgainst(http[j - 1].rbody) |-> Rendered[k]]
  /\ \A j \in Sent("POST") :
       \A i \in 1 .. (j - 1) :
         /\ http[i].method = "GET"
         /\ http[i].target # "" => http[i].status # 200

\* C16 witness: the concurrent run renamed the pool between the GET and the
\* PATCH of this run, and the PATCH was sent all the same.
C16_Witness ==
  /\ pc = "done"
  /\ \E j \in Sent("PATCH") :
     \E k \in 1 .. Len(other) :
       /\ other[k].at = j - 1
       /\ other[k].method = "PATCH"
       /\ other[k].target = http[j].target

\* The object in the body of a GET answer, out of its envelope if it has one.
ObservedBy(b) == IF HasKey(b, "value") THEN b.v["value"] ELSE b

\* C21: the body of the PATCH _update sends is the rendered update payload
\* restricted to some of its keys, each with the value it was rendered with;
\* it holds every rendered field that the answer to the GET did not have, and
\* no field the task did not give. A run that ends without a PATCH had every
\* rendered field in the answer to its GET.
C21_PruneFrame ==
  /\ \A j \in Sent("PATCH") :
       /\ j >= 2 /\ http[j - 1].method = "GET"
       /\ DOMAIN http[j].body \subseteq DOMAIN Rendered
       /\ \A k \in DOMAIN http[j].body :
            /\ http[j].body[k] = Rendered[k]
            /\ k \in DOMAIN params0 /\ http[j].body[k] = params0[k]
       /\ \A k \in DOMAIN Rendered :
            k \notin DOMAIN ObservedBy(http[j - 1].rbody).v
              => k \in DOMAIN http[j].body
  /\ (Returned /\ Len(http) > 0 /\ Last.method = "GET")
       => DOMAIN Rendered \subseteq DOMAIN ObservedBy(Last.rbody).v

\* C21 witness: a PATCH carried a field that the answer to the GET did not
\* have, while another rendered field was pruned.
C21_Witness ==
  /\ Returned
  /\ \E j \in Sent("PATCH") :
       /\ \E k \in DOMAIN http[j].body :
            k \notin DOMAIN ObservedBy(http[j - 1].rbody).v
       /\ DOMAIN http[j].body # DOMAIN Rendered

\* C22 (as stated): when the PATCH of _update was accepted, the value of the
\* result is not the object the GET of the same run was answered before the
\* PATCH, whatever Content-Type the PATCH answer has.
C22_ValueNotStale ==
  \A j \in Sent("PATCH") :
    (Returned /\ http[j].accepted /\ j >= 2 /\ http[j - 1].method = "GET")
    => result["value"] # ObservedBy(http[j - 1].rbody)

====
